---- MODULE Spec2Model ----
(***************************************************************************)
(* The Lookup combobox of src/scripts/Lookup.tsx as a state machine.       *)
(*                                                                         *)
(* The state is the orchestrator's LookupState (selected, opened,          *)
(* searchText, targetScope, focusFirstCandidate), the props the caller     *)
(* mounted it with, the rendered component tree, the document's active     *)
(* element and the queue of pending setTimeout callbacks.  One action is   *)
(* one DOM event, one timer callback or one caller-side change; every      *)
(* action ends with React's re-render (Commit).                            *)
(***************************************************************************)
EXTENDS Integers, Sequences, FiniteSets, TLC

\* ------------------------------------------------------------------ bounds
MaxLen == 2
MaxTimers == 2
MaxData == 2

Chars == {"a"}
AllEntries == <<"e1", "e2", "e3", "e4">>
ScopeValues == {"s1", "s2"}
Null == "null"

VARIABLES
  selected,             \* Entry | null
  opened,               \* boolean
  searchText,           \* string, as a sequence of characters
  targetScope,          \* string
  focusFirstCandidate,  \* boolean, useState(false)
  props,                \* what the caller mounted the Lookup with
  mounted,              \* FALSE once the Lookup has been unmounted
  rendered,             \* the components in the rendered tree
  active,               \* document.activeElement
  timers,               \* pending setTimeout callbacks, oldest first
  calls,                \* caller callbacks invoked by the last step, in order
  ev,                   \* the event the last step handled
  cancels,              \* onComplete(true) calls of blur checks since focus was last inside
  typing,               \* keystrokes typed in a row, and the onSearchTextChange calls they made
  observing             \* whether calls, ev, cancels and typing are being recorded

vars == <<selected, opened, searchText, targetScope, focusFirstCandidate,
          props, mounted, rendered, active, timers, calls, ev, cancels, typing,
          observing>>

\* --------------------------------------------------------------- elements
El(name) == [el |-> name, idx |-> 0]
Row(i) == [el |-> "row", idx |-> i]
Outside == El("outside")

\* the predicates a caller may pass as lookupFilter: none, one that rejects
\* every entry, one that looks at the entry, the search text and the scope
FilterKinds == {"none", "never", "match"}

lookupFilter(kind, entry, text, scope) ==
  /\ kind = "match"
  /\ entry = AllEntries[1] \/ text # <<>>
  /\ scope # "s2"

\* filter = trueFilter unless the Lookup passes
\* (entry) => lookupFilter(entry, searchText, targetScope)
filter(P, entry, text, scope) ==
  IF P.filter = "none" THEN TRUE ELSE lookupFilter(P.filter, entry, text, scope)

\* a list that renders every entry, whatever the filter
Candidates_Unfiltered(P, text, scope) == P.data

\* data.filter(filter): the candidate rows of the list
Candidates(P, text, scope) ==
  SelectSeq(P.data, LAMBDA e : filter(P, e, text, scope))

\* the focusable elements of a rendered tree; the search icon and the scope
\* button are disabled with the Lookup, the text field is not
Elements(R, P, S) ==
  (IF "LookupSelection" \in R THEN {El("pill")} ELSE {})
  \cup (IF "LookupSearch" \in R
          THEN {El("input")}
               \cup (IF ~P.disabled THEN {El("icon")} ELSE {})
               \cup (IF P.scopes /\ ~P.disabled THEN {El("scope")} ELSE {})
          ELSE {})
  \cup (IF "LookupCandidateList" \in R
          THEN {Row(i) : i \in 1..Len(Candidates(P, S.searchText, S.targetScope))}
          ELSE {})

\* a render in which the open list takes the place of the search bar
LookupRender_ListReplaces(sel, op, mnt) ==
  IF ~mnt THEN {}
  ELSE IF op THEN {"LookupCandidateList"}
                  \cup (IF sel # Null THEN {"LookupSelection"} ELSE {})
  ELSE (IF sel # Null THEN {"LookupSelection"} ELSE {"LookupSearch"})

\* JSX of Lookup: selected ? LookupSelection : LookupSearch, opened ? list
LookupRender(sel, op, mnt) ==
  IF ~mnt THEN {}
  ELSE (IF sel # Null THEN {"LookupSelection"} ELSE {"LookupSearch"})
       \cup (IF op THEN {"LookupCandidateList"} ELSE {})

\* ------------------------------------------------------ the working state
Cur == [selected |-> selected, opened |-> opened, searchText |-> searchText,
        targetScope |-> targetScope, focusFirstCandidate |-> focusFirstCandidate,
        active |-> active, timers |-> timers, calls |-> <<>>]

Call(cb, text, val) == [cb |-> cb, text |-> text, val |-> val]
CallsOf(cs, cb) == SelectSeq(cs, LAMBDA c : c.cb = cb)
Notify(S, c) == [S EXCEPT !.calls = Append(@, c)]
setTimeout(S, k) == [S EXCEPT !.timers = Append(@, k)]

\* a setter that writes the field whether or not the caller owns it
setValue_Uncontrolled(S, f, v) ==
  IF ~mounted THEN S ELSE [S EXCEPT ![f] = v]

\* useControlledValue: a supplied prop is read-only for the widget
setValue(S, f, v) ==
  IF ~mounted \/ f \in props.ctl THEN S ELSE [S EXCEPT ![f] = v]

setFocusFirstCandidate(S, v) ==
  IF ~mounted THEN S ELSE [S EXCEPT !.focusFirstCandidate = v]

\* --------------------------------------------------------- focus and blur
\* LookupSearch.onInputBlur: the 10ms deferred check of the search bar
onInputBlur(S) == setTimeout(S, "searchBlur")

\* Lookup.onBlur: the 500ms deferred check of the orchestrator
onBlur(S) == setTimeout(S, "lookupBlur")

\* the blur event of the element that loses focus: text field, search icon
\* and scope button report to onInputBlur, a candidate row to Lookup.onBlur
BlurEvent(S, old) ==
  IF old.el \in {"input", "icon", "scope"} THEN onInputBlur(S)
  ELSE IF old.el = "row" THEN onBlur(S)
  ELSE S

\* element.focus()
Focus(S, el) ==
  IF S.active = el THEN S ELSE [BlurEvent(S, S.active) EXCEPT !.active = el]

\* isElInChildren(rootEl, targetEl) with rootEl the LookupSearch root
LookupSearch_isFocusedInComponent(S) ==
  /\ "LookupSearch" \in rendered
  /\ S.active.el \in {"input", "icon", "scope"}

\* a check that looks for the focus under the widget root only
isFocusedInComponent_RootOnly(S) ==
  mounted /\ S.active.el \in {"input", "icon", "scope", "pill"}

\* isElInChildren(elRef.current, t) || isElInChildren(candidateListRef.current, t)
isFocusedInComponent(S) ==
  \/ (mounted /\ S.active.el \in {"input", "icon", "scope", "pill"})
  \/ ("LookupCandidateList" \in rendered /\ S.active.el = "row")

\* ----------------------------------------------- the orchestrator (Lookup)
\* a scope menu click that toggles the list
onScopeMenuClick_Toggle(S) ==
  Notify(setValue(S, "opened", ~S.opened), Call("onScopeMenuClick", <<>>, "-"))

onScopeMenuClick(S) ==
  Notify(setValue(S, "opened", FALSE), Call("onScopeMenuClick", <<>>, "-"))

\* a scope selection that also requests candidates for the new scope
onScopeSelect_Requests(S, v) ==
  LET S1 == Notify(setValue(S, "targetScope", v), Call("onScopeSelect", <<>>, v))
  IN Notify(setValue(S1, "opened", TRUE), Call("onLookupRequest", searchText, "-"))

onScopeSelect(S, v) ==
  Notify(setValue(S, "targetScope", v), Call("onScopeSelect", <<>>, v))

\* a text change that also requests candidates
onSearchTextChange_Requests(S, t) ==
  LET S1 == Notify(setValue(S, "searchText", t), Call("onSearchTextChange", t, "-"))
  IN Notify(setValue(S1, "opened", TRUE), Call("onLookupRequest", t, "-"))

onSearchTextChange(S, t) ==
  Notify(setValue(S, "searchText", t), Call("onSearchTextChange", t, "-"))

\* a request that tells the caller and forgets to open the list
onLookupRequest_NoOpen(S, t) == Notify(S, Call("onLookupRequest", t, "-"))

onLookupRequest(S, t) ==
  Notify(setValue(S, "opened", TRUE), Call("onLookupRequest", t, "-"))

\* a reset that requests candidates for the text the render had
onResetSelection_StaleText(S) ==
  LET S1 == setValue(S, "selected", Null)
      S2 == Notify(S1, Call("onSelect", <<>>, Null))
      S3 == onSearchTextChange(S2, <<>>)
      S4 == onLookupRequest(S3, searchText)
  IN setTimeout(S4, "focusInput")

onResetSelection(S) ==
  LET S1 == setValue(S, "selected", Null)
      S2 == Notify(S1, Call("onSelect", <<>>, Null))
      S3 == onSearchTextChange(S2, <<>>)
      S4 == onLookupRequest(S3, <<>>)
  IN setTimeout(S4, "focusInput")

\* a select that toggles the list instead of closing it
onLookupItemSelect_Toggle(S, entry) ==
  LET S1 == IF entry # Null
              THEN LET A == setValue(S, "selected", entry)
                       B == setValue(A, "opened", ~A.opened)
                       C == Notify(B, Call("onSelect", <<>>, entry))
                   IN setTimeout(C, "focusPill")
              ELSE setTimeout(setValue(S, "opened", FALSE), "focusInput")
  IN Notify(S1, Call("onComplete", <<>>, "undefined"))

\* a select that completes only when an entry was chosen
onLookupItemSelect_CompleteOnEntry(S, entry) ==
  IF entry # Null
    THEN LET A == setValue(S, "selected", entry)
             B == setValue(A, "opened", FALSE)
             C == Notify(B, Call("onSelect", <<>>, entry))
         IN Notify(setTimeout(C, "focusPill"), Call("onComplete", <<>>, "undefined"))
    ELSE setTimeout(setValue(S, "opened", FALSE), "focusInput")

\* a select that leaves the list open under the new selection
onLookupItemSelect_StaysOpen(S, entry) ==
  LET S1 == IF entry # Null
              THEN LET A == setValue(S, "selected", entry)
                       C == Notify(A, Call("onSelect", <<>>, entry))
                   IN setTimeout(C, "focusPill")
              ELSE setTimeout(setValue(S, "opened", FALSE), "focusInput")
  IN Notify(S1, Call("onComplete", <<>>, "undefined"))

\* a select(null) that clears the selection like a reset
onLookupItemSelect_NullClears(S, entry) ==
  LET A == setValue(S, "selected", entry)
      B == setValue(A, "opened", FALSE)
      C == Notify(B, Call("onSelect", <<>>, entry))
      D == setTimeout(C, IF entry # Null THEN "focusPill" ELSE "focusInput")
  IN Notify(D, Call("onComplete", <<>>, "undefined"))

onLookupItemSelect(S, entry) ==
  LET S1 == IF entry # Null
              THEN LET A == setValue(S, "selected", entry)
                       B == setValue(A, "opened", FALSE)
                       C == Notify(B, Call("onSelect", <<>>, entry))
                   IN setTimeout(C, "focusPill")
              ELSE setTimeout(setValue(S, "opened", FALSE), "focusInput")
  IN Notify(S1, Call("onComplete", <<>>, "undefined"))

\* a pressDown that sets the flag and forgets the reset timer
onFocusFirstCandidate_NoReset(S) ==
  IF ~opened
    THEN onLookupRequest(S, searchText)
    ELSE setFocusFirstCandidate(S, TRUE)

\* a pressDown that always requests candidates
onFocusFirstCandidate_AlwaysRequest(S) == onLookupRequest(S, searchText)

\* opened and searchText are the values of the render the callback closes over
onFocusFirstCandidate(S) ==
  IF ~opened
    THEN onLookupRequest(S, searchText)
    ELSE setTimeout(setFocusFirstCandidate(S, TRUE), "flagReset")

\* a submit that requests candidates for the empty text
onSubmit_EmptyText(S) == onLookupRequest(S, <<>>)

\* onSubmit={() => onLookupRequest(searchText || '')}
onSubmit(S) == onLookupRequest(S, searchText)

\* a complete that closes the list before telling the caller
onComplete_Closes(S, cancel) ==
  Notify(setValue(S, "opened", FALSE), Call("onComplete", <<>>, cancel))

\* onComplete={onComplete}: the caller's callback, passed through
onComplete(S, cancel) == Notify(S, Call("onComplete", <<>>, cancel))

\* ------------------------------------------------------------ LookupSearch
\* an icon click that treats empty text the way Enter does
onLookupIconClick_NeedsText(S) ==
  IF searchText # <<>>
    THEN onSubmit(Focus(S, El("input")))
    ELSE onComplete(Focus(S, El("input")), "undefined")

onLookupIconClick(S) == onSubmit(Focus(S, El("input")))

\* onClick={disabled ? undefined : onLookupIconClick} of the search icon
IconButton_onClick(S) == IF props.disabled THEN S ELSE onLookupIconClick(S)

\* a key handler whose Enter submits whatever the text is
onInputKeyDown_AlwaysSubmit(S, key) ==
  LET S1 == IF key = "Enter" THEN onSubmit(S)
            ELSE IF key = "ArrowDown" THEN onFocusFirstCandidate(S)
            ELSE IF key = "Escape" THEN onComplete(S, "true")
            ELSE S
  IN Notify(S1, Call("onKeyDown", <<>>, key))

\* a key handler whose Escape also clears the text
onInputKeyDown_EscapeClears(S, key) ==
  LET S1 == IF key = "Enter"
              THEN (IF searchText # <<>> THEN onSubmit(S) ELSE onComplete(S, "undefined"))
            ELSE IF key = "ArrowDown" THEN onFocusFirstCandidate(S)
            ELSE IF key = "Escape" THEN onComplete(onSearchTextChange(S, <<>>), "true")
            ELSE S
  IN Notify(S1, Call("onKeyDown", <<>>, key))

\* a key handler that keeps every key from the onKeyDown prop
onInputKeyDown_NoKeyDown(S, key) ==
  IF key = "Enter"
    THEN (IF searchText # <<>> THEN onSubmit(S) ELSE onComplete(S, "undefined"))
  ELSE IF key = "ArrowDown" THEN onFocusFirstCandidate(S)
  ELSE IF key = "Escape" THEN onComplete(S, "true")
  ELSE S

\* e.currentTarget.value is the value prop of the input, searchText
onInputKeyDown(S, key) ==
  LET S1 == IF key = "Enter"
              THEN (IF searchText # <<>> THEN onSubmit(S) ELSE onComplete(S, "undefined"))
            ELSE IF key = "ArrowDown" THEN onFocusFirstCandidate(S)
            ELSE IF key = "Escape" THEN onComplete(S, "true")
            ELSE S
  IN Notify(S1, Call("onKeyDown", <<>>, key))

onInputChange(S, value) == onSearchTextChange(S, value)

\* --------------------------------------------------------- LookupSelection
LookupSelection_onKeyDown(S, key) ==
  IF key \in {"Backspace", "Delete"} THEN onResetSelection(S) ELSE S

onPillClick(S) == Focus(S, El("pill"))

\* ------------------------------------------------ LookupCandidateListInner
\* the <li> children of the list: one per candidate, then the loading row
ListItems(P) ==
  [i \in 1..Len(Candidates(P, searchText, targetScope)) |-> "candidate"]
  \o (IF P.loading THEN <<"loading">> ELSE <<>>)

\* a scan that stops at the first sibling, candidate or not
ScanItems_AnyItem(items, i, step) ==
  IF i < 1 \/ i > Len(items) THEN 0 ELSE i

\* the while loop over nextElementSibling / previousElementSibling
RECURSIVE ScanItems(_, _, _)
ScanItems(items, i, step) ==
  IF i < 1 \/ i > Len(items) THEN 0
  ELSE IF items[i] = "candidate" THEN i
  ELSE ScanItems(items, i + step, step)

\* focusToTargetItemEl(index), index counted from 0
focusToTargetItemEl(S, index) ==
  IF "LookupCandidateList" \in rendered /\ index + 1 <= Len(Candidates(props, searchText, targetScope))
    THEN Focus(S, Row(index + 1))
    ELSE S

CandidateList_onKeyDown(S, key) ==
  IF key \in {"ArrowUp", "ArrowDown"}
    THEN LET step == IF key = "ArrowDown" THEN 1 ELSE -1
             j == ScanItems(ListItems(props), S.active.idx + step, step)
         IN IF j # 0 THEN Focus(S, Row(j)) ELSE S
  ELSE IF key = "Escape" THEN onLookupItemSelect(S, Null)
  ELSE S

\* ----------------------------------------------------------------- timers
TimerKinds == {"searchBlur", "searchBlurStale", "lookupBlur", "flagReset",
               "focusPill", "focusInput", "focusFirst", "focusFirstStale"}
Delay(k) == IF k = "lookupBlur" THEN 500 ELSE 10

\* a timer runs before every timer set later with the same or a longer delay
CanFire(i) ==
  /\ i \in 1..Len(timers)
  /\ \A j \in 1..(i - 1) : Delay(timers[j]) > Delay(timers[i])

RemoveAt(s, i) == SubSeq(s, 1, i - 1) \o SubSeq(s, i + 1, Len(s))

\* timer callbacks whose pill lookup finds no element to focus
TimerCallback_NoPillFocus(S, k) ==
  CASE k = "searchBlur" ->
         IF ~LookupSearch_isFocusedInComponent(S) THEN onBlur(S) ELSE S
    [] k = "searchBlurStale" -> onBlur(S)
    [] k = "lookupBlur" ->
         IF ~isFocusedInComponent(S)
           THEN onComplete(Notify(setValue(S, "opened", FALSE),
                                  Call("onBlur", <<>>, "-")), "true")
           ELSE S
    [] k = "flagReset" -> setFocusFirstCandidate(S, FALSE)
    [] k = "focusInput" ->
         IF "LookupSearch" \in rendered THEN Focus(S, El("input")) ELSE S
    [] k = "focusFirst" -> focusToTargetItemEl(S, 0)
    [] OTHER -> S

TimerCallback(S, k) ==
  CASE k = "searchBlur" ->
         IF ~LookupSearch_isFocusedInComponent(S) THEN onBlur(S) ELSE S
    [] k = "searchBlurStale" -> onBlur(S)
    [] k = "lookupBlur" ->
         IF ~isFocusedInComponent(S)
           THEN onComplete(Notify(setValue(S, "opened", FALSE),
                                  Call("onBlur", <<>>, "-")), "true")
           ELSE S
    [] k = "flagReset" -> setFocusFirstCandidate(S, FALSE)
    [] k = "focusPill" ->
         IF "LookupSelection" \in rendered THEN Focus(S, El("pill")) ELSE S
    [] k = "focusInput" ->
         IF "LookupSearch" \in rendered THEN Focus(S, El("input")) ELSE S
    [] k = "focusFirst" -> focusToTargetItemEl(S, 0)
    [] OTHER -> S

\* ------------------------------------------------------------- re-render
\* timers of an unmounted LookupSearch / list instance see a null ref
Stale(k, R) ==
  IF k = "searchBlur" /\ "LookupSearch" \in rendered /\ "LookupSearch" \notin R
    THEN "searchBlurStale"
  ELSE IF k = "focusFirst" /\ "LookupCandidateList" \in rendered
          /\ "LookupCandidateList" \notin R
    THEN "focusFirstStale"
  ELSE k

\* useEffect of the list: on mount and when focus changes, if (focus) setTimeout
FocusEffect(S, R) ==
  /\ "LookupCandidateList" \in R
  /\ S.focusFirstCandidate
  /\ ~("LookupCandidateList" \in rendered /\ focusFirstCandidate)

MaxCancels == 2

Commit(S, e, P, M) ==
  LET R  == LookupRender(S.selected, S.opened, M)
      T1 == [i \in 1..Len(S.timers) |-> Stale(S.timers[i], R)]
      T2 == IF FocusEffect(S, R) THEN Append(T1, "focusFirst") ELSE T1
      a  == IF S.active \in Elements(R, P, S) THEN S.active ELSE Outside
      n  == Cardinality({i \in 1..Len(S.calls) :
                            e.name = "timer" /\ S.calls[i].cb = "onComplete"})
  IN /\ Len(T2) <= MaxTimers
     /\ selected' = S.selected
     /\ opened' = S.opened
     /\ searchText' = S.searchText
     /\ targetScope' = S.targetScope
     /\ focusFirstCandidate' = S.focusFirstCandidate
     /\ props' = P
     /\ mounted' = M
     /\ rendered' = R
     /\ active' = a
     /\ timers' = T2
     /\ observing' = observing
     /\ IF observing
          THEN /\ calls' = S.calls
               /\ ev' = e
               /\ cancels' = IF a # Outside THEN 0
                             ELSE IF cancels + n > MaxCancels THEN MaxCancels
                             ELSE cancels + n
               /\ typing' = IF e.name = "type"
                              THEN [n |-> typing.n + 1,
                                    stc |-> typing.stc
                                            + Len(CallsOf(S.calls, "onSearchTextChange"))]
                              ELSE [n |-> 0, stc |-> 0]
          ELSE UNCHANGED <<calls, ev, cancels, typing>>

\* the event of a step, with the opened the handler saw when it started
Event(name, arg) == [name |-> name, arg |-> arg, opened |-> opened]
Handle(S, name, arg) == Commit(S, Event(name, arg), props, mounted)

\* ---------------------------------------------------------------- actions
InputChange ==
  /\ active = El("input")
  /\ \/ \E c \in Chars :
          /\ Len(searchText) < MaxLen
          /\ observing => typing.n < MaxLen
          /\ Handle(onInputChange(Cur, Append(searchText, c)), "type", c)
     \/ /\ searchText # <<>>
        /\ Handle(onInputChange(Cur, SubSeq(searchText, 1, Len(searchText) - 1)),
                  "erase", "-")

InputKeys == {"Enter", "ArrowDown", "Escape", "Tab"}

InputKeyDown ==
  /\ active = El("input")
  /\ \E key \in InputKeys : Handle(onInputKeyDown(Cur, key), "inputKey", key)

LookupIconClick ==
  /\ "LookupSearch" \in rendered
  /\ Handle(IconButton_onClick(Cur), "iconClick", "-")

ScopeMenuClick ==
  /\ El("scope") \in Elements(rendered, props, Cur)
  /\ Handle(onScopeMenuClick(Cur), "scopeMenuClick", "-")

ScopeMenuSelect ==
  /\ El("scope") \in Elements(rendered, props, Cur)
  /\ \E v \in ScopeValues : Handle(onScopeSelect(Cur, v), "scopeSelect", v)

\* click on a candidate row, or Enter on the focused row
CandidateSelect ==
  /\ "LookupCandidateList" \in rendered
  /\ \E i \in 1..Len(Candidates(props, searchText, targetScope)) :
        LET entry == Candidates(props, searchText, targetScope)[i]
        IN Handle(onLookupItemSelect(Cur, entry), "select", entry)

ListKeys == {"ArrowUp", "ArrowDown", "Escape"}

CandidateKeyDown ==
  /\ active.el = "row"
  /\ \E key \in ListKeys : Handle(CandidateList_onKeyDown(Cur, key), "listKey", key)

PillKeys == {"Backspace", "Delete", "Tab"}

PillKeyDown ==
  /\ active = El("pill")
  /\ \E key \in PillKeys : Handle(LookupSelection_onKeyDown(Cur, key), "pillKey", key)

\* the remove affordance of the pill: onRemove={onResetSelection}
PillRemove ==
  /\ "LookupSelection" \in rendered
  /\ Handle(onResetSelection(Cur), "pillRemove", "-")

PillClick ==
  /\ "LookupSelection" \in rendered
  /\ active # El("pill")
  /\ Handle(onPillClick(Cur), "pillClick", "-")

\* the user moves focus (Tab, mouse) to another element or out of the widget
MoveFocus ==
  \E el \in (Elements(rendered, props, Cur) \cup {Outside}) \ {active, El("pill")} :
     Handle(Focus(Cur, el), "focus", el.el)

TimerFires ==
  \E i \in 1..Len(timers) :
     /\ CanFire(i)
     /\ Handle(TimerCallback([Cur EXCEPT !.timers = RemoveAt(timers, i)], timers[i]),
               "timer", timers[i])

Unmount ==
  /\ mounted
  /\ Commit(Cur, Event("unmount", "-"), props, FALSE)

\* the caller re-renders the Lookup with new candidate data (none, or the
\* answer to a lookup request) or with new values of the props it controls
CallerUpdate ==
  /\ mounted
  /\ \/ \E n \in {0, MaxData} :
          /\ n # Len(props.data)
          /\ Commit(Cur, Event("data", "-"),
                    [props EXCEPT !.data = SubSeq(AllEntries, 1, n)], mounted)
     \/ /\ "opened" \in props.ctl
        /\ Commit([Cur EXCEPT !.opened = ~opened], Event("prop", "opened"), props, mounted)
     \/ /\ "selected" \in props.ctl
        /\ \E e \in {Null, AllEntries[1]} \ {selected} :
              Commit([Cur EXCEPT !.selected = e], Event("prop", "selected"), props, mounted)
     \/ /\ "searchText" \in props.ctl
        /\ \E t \in {<<>>, <<"a">>} \ {searchText} :
              Commit([Cur EXCEPT !.searchText = t], Event("prop", "searchText"), props, mounted)
     \/ /\ "targetScope" \in props.ctl
        /\ \E v \in ScopeValues \ {targetScope} :
              Commit([Cur EXCEPT !.targetScope = v], Event("prop", "targetScope"), props, mounted)

\* ------------------------------------------------------------------- Init
Fields == {"selected", "opened", "searchText", "targetScope"}

MountProps(ctl, scopes, disabled, n) ==
  [ctl |-> ctl, scopes |-> scopes, disabled |-> disabled, loading |-> FALSE,
   filter |-> "none", data |-> SubSeq(AllEntries, 1, n)]

\* a Lookup mounted with the loading flag and a lookupFilter
ListProps(loading, kind) ==
  [MountProps({}, TRUE, FALSE, MaxData) EXCEPT !.loading = loading, !.filter = kind]

InitWith(P, sel, op, obs) ==
  /\ props = P
  /\ observing = obs
  /\ selected = sel
  /\ opened = op
  /\ searchText = <<>>
  /\ targetScope = ""
  /\ focusFirstCandidate = FALSE
  /\ mounted = TRUE
  /\ rendered = LookupRender(sel, op, TRUE)
  /\ active = Outside
  /\ timers = <<>>
  /\ calls = <<>>
  /\ ev = [name |-> "mount", arg |-> "-", opened |-> op]
  /\ cancels = 0
  /\ typing = [n |-> 0, stc |-> 0]

\* every field uncontrolled, or selected and opened owned by the caller (of a
\* Lookup without scopes), or searchText and targetScope owned by the caller
InitProps ==
  \E P \in {MountProps({}, TRUE, FALSE, MaxData),
             MountProps({"selected", "opened"}, FALSE, FALSE, MaxData),
             MountProps({"searchText", "targetScope"}, TRUE, FALSE, MaxData)},
     op \in BOOLEAN, sel \in {Null, AllEntries[1]} :
     InitWith(P, sel, op, TRUE)

\* every field uncontrolled
Init ==
  \E op \in BOOLEAN, sel \in {Null, AllEntries[1]} :
     InitWith(MountProps({}, TRUE, FALSE, MaxData), sel, op, TRUE)

Next ==
  \/ InputChange
  \/ InputKeyDown
  \/ LookupIconClick
  \/ ScopeMenuClick
  \/ ScopeMenuSelect
  \/ CandidateSelect
  \/ CandidateKeyDown
  \/ PillKeyDown
  \/ PillRemove
  \/ PillClick
  \/ MoveFocus
  \/ TimerFires
  \/ Unmount
  \/ CallerUpdate

Spec == Init /\ [][Next]_vars
SpecProps == InitProps /\ [][Next]_vars

\* every field uncontrolled; the list shows the loading row, or the caller
\* passes a lookupFilter
InitList ==
  \E P \in {ListProps(TRUE, "none"), ListProps(TRUE, "match"),
             ListProps(FALSE, "never")},
     op \in BOOLEAN, sel \in {Null, AllEntries[1]} :
     InitWith(P, sel, op, TRUE)

SpecList == InitList /\ [][Next]_vars

\* every field uncontrolled; the Lookup is mounted enabled, or disabled
InitDisabled ==
  \E d \in BOOLEAN, op \in BOOLEAN, sel \in {Null, AllEntries[1]} :
     InitWith(MountProps({}, TRUE, d, MaxData), sel, op, TRUE)

SpecDisabled == InitDisabled /\ [][Next]_vars

\* every field uncontrolled, the history variables not recorded
InitLive ==
  \E op \in BOOLEAN, sel \in {Null, AllEntries[1]} :
     InitWith(MountProps({}, TRUE, FALSE, MaxData), sel, op, FALSE)

\* every pending setTimeout callback is run eventually
LiveSpec == InitLive /\ [][Next]_vars /\ WF_vars(TimerFires)

TypeOK ==
  /\ selected \in {Null} \cup {AllEntries[i] : i \in 1..Len(AllEntries)}
  /\ opened \in BOOLEAN
  /\ Len(searchText) <= MaxLen
  /\ focusFirstCandidate \in BOOLEAN
  /\ Len(timers) <= MaxTimers
  /\ \A i \in 1..Len(timers) : timers[i] \in TimerKinds

\* ------------------------------------------------------------------ claims
SelectionOrSearch == rendered \cap {"LookupSelection", "LookupSearch"}

\* C1: while the Lookup is mounted exactly one of the Selection display and
\* the Search bar is rendered, the Selection display iff selected is non-null
\* and the Search bar iff selected is null; a step that opens or closes the
\* candidate list and leaves selected alone renders the same one of the two.
C1_ExactlyOne ==
  /\ [](mounted =>
          /\ ("LookupSelection" \in rendered) <=> (selected # Null)
          /\ ("LookupSearch" \in rendered) <=> (selected = Null))
  /\ [][(mounted' /\ opened' # opened /\ selected' = selected)
          => SelectionOrSearch' = SelectionOrSearch]_vars

\* the list is open over the search bar after Enter on a closed list
C1_Witness ==
  /\ ev = [name |-> "inputKey", arg |-> "Enter", opened |-> FALSE]
  /\ rendered = {"LookupSearch", "LookupCandidateList"}
  /\ selected = Null

\* the five fields of LookupState
LookupState(S) ==
  <<S.selected, S.opened, S.searchText, S.targetScope, S.focusFirstCandidate>>

SomeEntries == {AllEntries[i] : i \in 1..MaxData}

\* C2: with selected and opened uncontrolled, select(entry) for a non-null
\* entry leaves selected = entry and opened = FALSE and calls onSelect(entry)
\* once; applied a second time with the same entry it yields the LookupState
\* the first application left.  Checked on the select steps taken and, as a
\* function, from every reachable state of the mounted widget.
C2_SelectIdempotent ==
  /\ (ev.name = "select" /\ ev.arg # Null) =>
        /\ selected = ev.arg
        /\ ~opened
        /\ CallsOf(calls, "onSelect") = <<Call("onSelect", <<>>, ev.arg)>>
  /\ mounted =>
        \A e \in SomeEntries :
           LET S1 == onLookupItemSelect(Cur, e)
               S2 == onLookupItemSelect([S1 EXCEPT !.calls = <<>>], e)
           IN /\ S1.selected = e
              /\ S1.opened = FALSE
              /\ CallsOf(S1.calls, "onSelect") = <<Call("onSelect", <<>>, e)>>
              /\ LookupState(S2) = LookupState(S1)

\* the second candidate row was selected from an open list
C2_Witness ==
  /\ ev = [name |-> "select", arg |-> AllEntries[2], opened |-> TRUE]
  /\ selected = AllEntries[2]
  /\ ~opened
  /\ rendered = {"LookupSelection"}

ResetEvent(e) ==
  \/ e.name = "pillRemove"
  \/ (e.name = "pillKey" /\ e.arg \in {"Backspace", "Delete"})

\* C3: with selected and searchText uncontrolled, resetSelection leaves
\* selected = null and searchText = '' and calls onLookupRequest exactly once,
\* with the empty string.  Checked on the reset steps taken and, as a function,
\* from every reachable state of the mounted widget.
C3_ResetSelection ==
  /\ ResetEvent(ev) =>
        /\ selected = Null
        /\ searchText = <<>>
        /\ CallsOf(calls, "onLookupRequest") = <<Call("onLookupRequest", <<>>, "-")>>
  /\ mounted =>
        LET S1 == onResetSelection(Cur)
        IN /\ S1.selected = Null
           /\ S1.searchText = <<>>
           /\ CallsOf(S1.calls, "onLookupRequest") = <<Call("onLookupRequest", <<>>, "-")>>

\* Backspace on the pill has cleared a selection
C3_Witness ==
  /\ ev.name = "pillKey"
  /\ ev.arg = "Backspace"
  /\ selected = Null
  /\ searchText = <<>>
  /\ rendered = {"LookupSearch", "LookupCandidateList"}

\* C4: once the 500ms check of Lookup.onBlur has run with focus outside the
\* widget and the candidate list, opened is false and onComplete(true) has
\* been called exactly once since focus left, whatever focus transfers and
\* blur events came before.
C4_BlurCompletesOnce ==
  (mounted /\ ev.name = "timer" /\ ev.arg = "lookupBlur" /\ active = Outside)
    => (~opened /\ cancels = 1)

KeyEvent(e, key) == e.name = "inputKey" /\ e.arg = key

\* C5: Enter in the text field with non-empty text and the list closed calls
\* onLookupRequest exactly once, with the current searchText, and sets opened
\* to true; selected and searchText are unchanged.
C5_EnterSubmits ==
  [][(KeyEvent(ev', "Enter") /\ searchText # <<>> /\ ~opened) =>
       /\ CallsOf(calls', "onLookupRequest") = <<Call("onLookupRequest", searchText, "-")>>
       /\ opened'
       /\ selected' = selected
       /\ searchText' = searchText]_vars

\* Enter has opened a closed list with a request for the typed text
C5_Witness ==
  /\ ev = [name |-> "inputKey", arg |-> "Enter", opened |-> FALSE]
  /\ opened
  /\ searchText # <<>>
  /\ CallsOf(calls, "onLookupRequest") = <<Call("onLookupRequest", searchText, "-")>>

\* C6: Enter in the text field with empty text calls onComplete once, without
\* the cancel flag, calls no onLookupRequest and leaves opened as it was.
C6_EnterEmptyCompletes ==
  [][(KeyEvent(ev', "Enter") /\ searchText = <<>>) =>
       /\ CallsOf(calls', "onComplete") = <<Call("onComplete", <<>>, "undefined")>>
       /\ CallsOf(calls', "onLookupRequest") = <<>>
       /\ opened' = opened]_vars

\* Enter on the empty text field of a closed list completed without opening
C6_Witness ==
  /\ ev = [name |-> "inputKey", arg |-> "Enter", opened |-> FALSE]
  /\ searchText = <<>>
  /\ ~opened
  /\ CallsOf(calls, "onComplete") = <<Call("onComplete", <<>>, "undefined")>>

\* C7: Escape in the text field with non-empty text calls onComplete(true)
\* once and leaves searchText as it was.
C7_EscapeCancels ==
  [][(KeyEvent(ev', "Escape") /\ searchText # <<>>) =>
       /\ CallsOf(calls', "onComplete") = <<Call("onComplete", <<>>, "true")>>
       /\ CallsOf(calls', "onSearchTextChange") = <<>>
       /\ searchText' = searchText]_vars

\* Escape was pressed on a non-empty text field
C7_Witness ==
  /\ KeyEvent(ev, "Escape")
  /\ searchText # <<>>
  /\ CallsOf(calls, "onComplete") = <<Call("onComplete", <<>>, "true")>>

\* C8: each character typed while the list is closed calls onSearchTextChange
\* exactly once, with the text extended by that character, makes that text
\* the searchText, calls no onLookupRequest and leaves opened false and
\* selected as it was; after n characters typed in a row the calls number n.
C8_TypingNotifies ==
  /\ [][(ev'.name = "type" /\ ~opened) =>
          /\ CallsOf(calls', "onSearchTextChange")
               = <<Call("onSearchTextChange", Append(searchText, ev'.arg), "-")>>
          /\ searchText' = Append(searchText, ev'.arg)
          /\ CallsOf(calls', "onLookupRequest") = <<>>
          /\ ~opened'
          /\ selected' = selected]_vars
  /\ [](ev.name = "type" => (typing.stc = typing.n /\ typing.n <= Len(searchText)))

\* two characters were typed in a row into the empty field of a closed list
C8_Witness ==
  /\ ev.name = "type"
  /\ ~opened
  /\ typing = [n |-> 2, stc |-> 2]
  /\ Len(searchText) = 2

\* C9: Down-arrow in the text field of a closed list does what submit does:
\* opened becomes true, onLookupRequest is called once with the current
\* searchText and focusFirstCandidate is not touched; on an open list it sets
\* focusFirstCandidate, calls no onLookupRequest and leaves opened, selected
\* and searchText as they were.
C9_PressDown ==
  [][KeyEvent(ev', "ArrowDown") =>
       IF ~opened
         THEN /\ opened'
              /\ CallsOf(calls', "onLookupRequest")
                   = <<Call("onLookupRequest", searchText, "-")>>
              /\ focusFirstCandidate' = focusFirstCandidate
              /\ onFocusFirstCandidate(Cur) = onSubmit(Cur)
         ELSE /\ focusFirstCandidate'
              /\ CallsOf(calls', "onLookupRequest") = <<>>
              /\ opened' = opened
              /\ selected' = selected
              /\ searchText' = searchText]_vars

\* Down-arrow on an open list has set the one-shot flag
C9_Witness ==
  /\ ev = [name |-> "inputKey", arg |-> "ArrowDown", opened |-> TRUE]
  /\ focusFirstCandidate
  /\ opened

C11_SelectNullCloses ==
  /\ [][(ev'.name = "listKey" /\ ev'.arg = "Escape") =>
          /\ ~opened'
          /\ selected' = selected
          /\ searchText' = searchText
          /\ targetScope' = targetScope
          /\ CallsOf(calls', "onSelect") = <<>>]_vars
  /\ [](mounted =>
          LET S1 == onLookupItemSelect(Cur, Null)
          IN /\ ~S1.opened
             /\ S1.selected = selected
             /\ S1.searchText = searchText
             /\ S1.targetScope = targetScope
             /\ CallsOf(S1.calls, "onSelect") = <<>>)

\* Escape on a candidate row has closed the list of a search with typed text
C11_Witness ==
  /\ ev = [name |-> "listKey", arg |-> "Escape", opened |-> TRUE]
  /\ ~opened
  /\ selected = Null
  /\ searchText # <<>>
  /\ targetScope \in ScopeValues

\* C12: a field whose current-value prop the caller supplies changes only
\* when the caller changes the prop: no widget event changes it, and the
\* caller callbacks of those events are still called.  A field without the
\* prop starts at its default and is changed only by the events that reach
\* the orchestrator's handler for it.
C12_Controlled ==
  /\ [][ev'.name # "prop" =>
          /\ "selected" \in props.ctl => selected' = selected
          /\ "opened" \in props.ctl => opened' = opened
          /\ "searchText" \in props.ctl => searchText' = searchText
          /\ "targetScope" \in props.ctl => targetScope' = targetScope]_vars
  /\ [][/\ (ev'.name = "select" /\ ev'.arg # Null) =>
             CallsOf(calls', "onSelect") = <<Call("onSelect", <<>>, ev'.arg)>>
        /\ (ev'.name = "type") =>
             CallsOf(calls', "onSearchTextChange")
               = <<Call("onSearchTextChange", Append(searchText, ev'.arg), "-")>>
        /\ (ev'.name = "scopeSelect") =>
             calls' = <<Call("onScopeSelect", <<>>, ev'.arg)>>
        /\ (ev'.name = "scopeMenuClick") =>
             calls' = <<Call("onScopeMenuClick", <<>>, "-")>>
        /\ (KeyEvent(ev', "Enter") /\ searchText # <<>>) =>
             CallsOf(calls', "onLookupRequest")
               = <<Call("onLookupRequest", searchText, "-")>>
        /\ (KeyEvent(ev', "ArrowDown") /\ ~opened) =>
             CallsOf(calls', "onLookupRequest")
               = <<Call("onLookupRequest", searchText, "-")>>
        /\ ResetEvent(ev') =>
             calls' = <<Call("onSelect", <<>>, Null),
                        Call("onSearchTextChange", <<>>, "-"),
                        Call("onLookupRequest", <<>>, "-")>>
        /\ (ev'.name = "timer" /\ ev'.arg = "lookupBlur" /\ active = Outside) =>
             calls' = <<Call("onBlur", <<>>, "-"), Call("onComplete", <<>>, "true")>>
       ]_vars
  /\ [][/\ selected' # selected =>
             (ev'.name = "select" \/ ResetEvent(ev')
                \/ (ev'.name = "prop" /\ ev'.arg = "selected"))
        /\ opened' # opened =>
             (ev'.name \in {"inputKey", "iconClick", "scopeMenuClick", "select",
                            "listKey", "pillKey", "pillRemove", "timer"}
                \/ (ev'.name = "prop" /\ ev'.arg = "opened"))
        /\ searchText' # searchText =>
             (ev'.name \in {"type", "erase"} \/ ResetEvent(ev')
                \/ (ev'.name = "prop" /\ ev'.arg = "searchText"))
        /\ targetScope' # targetScope =>
             (ev'.name = "scopeSelect"
                \/ (ev'.name = "prop" /\ ev'.arg = "targetScope"))]_vars
  /\ [](ev.name = "mount" =>
          /\ searchText = <<>>
          /\ targetScope = ""
          /\ selected \in {Null, AllEntries[1]})

\* a candidate was selected while the caller owns selected and opened: the
\* caller was told, the selection and the open list are as the props say
C12_Witness ==
  /\ ev = [name |-> "select", arg |-> AllEntries[2], opened |-> TRUE]
  /\ props.ctl = {"selected", "opened"}
  /\ selected = Null
  /\ opened
  /\ CallsOf(calls, "onSelect") = <<Call("onSelect", <<>>, AllEntries[2])>>

\* C13: scopeSelect(value) makes value the targetScope and calls
\* onScopeSelect(value) and nothing else; opened, selected, searchText and
\* focusFirstCandidate are as they were.
C13_ScopeSelect ==
  [][ev'.name = "scopeSelect" =>
       /\ targetScope' = ev'.arg
       /\ calls' = <<Call("onScopeSelect", <<>>, ev'.arg)>>
       /\ opened' = opened
       /\ selected' = selected
       /\ searchText' = searchText
       /\ focusFirstCandidate' = focusFirstCandidate]_vars

\* a scope was selected while the list was open, and the list is still open
C13_Witness ==
  /\ ev = [name |-> "scopeSelect", arg |-> "s2", opened |-> TRUE]
  /\ targetScope = "s2"
  /\ opened
  /\ calls = <<Call("onScopeSelect", <<>>, "s2")>>

\* C14: scopeMenuClick leaves the candidate list closed, whether it was open
\* or closed, and calls onScopeMenuClick; selected, searchText and targetScope
\* are as they were.
C14_ScopeMenuClick ==
  [][ev'.name = "scopeMenuClick" =>
       /\ ~opened'
       /\ calls' = <<Call("onScopeMenuClick", <<>>, "-")>>
       /\ selected' = selected
       /\ searchText' = searchText
       /\ targetScope' = targetScope]_vars

\* a click on the scope button has closed an open list
C14_Witness ==
  /\ ev = [name |-> "scopeMenuClick", arg |-> "-", opened |-> TRUE]
  /\ ~opened
  /\ calls = <<Call("onScopeMenuClick", <<>>, "-")>>

\* C15: a deferred callback that runs after the Lookup was unmounted is a
\* no-op: it leaves every field of the state as it was and calls none of the
\* caller's callbacks.
C15_UnmountedTimerNoOp ==
  [][(~mounted /\ ev'.name = "timer") =>
       /\ calls' = <<>>
       /\ selected' = selected
       /\ opened' = opened
       /\ searchText' = searchText
       /\ targetScope' = targetScope
       /\ focusFirstCandidate' = focusFirstCandidate
       /\ active' = active]_vars

\* C16: the 500ms check that a blur of the text field, the search icon, the
\* scope button or a candidate row leads to closes the list and calls onBlur
\* and onComplete(true) only if focus is then outside the widget root and the
\* candidate list; with focus on an element of either it leaves opened alone
\* and calls nothing.  The 10ms check of the search bar calls nothing itself
\* and goes on to the 500ms check only if focus has left the search bar.  No
\* other step calls onBlur.
C16_BlurTolerance ==
  /\ [][(ev'.name = "timer" /\ ev'.arg = "lookupBlur") =>
          IF active.el \in {"input", "icon", "scope", "pill", "row"}
            THEN /\ opened' = opened
                 /\ calls' = <<>>
            ELSE mounted =>
                 /\ ~opened'
                 /\ calls' = <<Call("onBlur", <<>>, "-"),
                               Call("onComplete", <<>>, "true")>>]_vars
  /\ [][(ev'.name = "timer" /\ ev'.arg = "searchBlur") =>
          /\ opened' = opened
          /\ calls' = <<>>
          /\ IF active.el \in {"input", "icon", "scope"}
               THEN Len(timers') = Len(timers) - 1
               ELSE /\ Len(timers') = Len(timers)
                    /\ timers'[Len(timers')] = "lookupBlur"]_vars
  /\ [](CallsOf(calls, "onBlur") # <<>> => (ev.name = "timer" /\ ev.arg = "lookupBlur"))

\* the 500ms check ran after focus had moved from the search bar to a
\* candidate row: the list is still open and nothing was called
C16_Witness ==
  /\ ev = [name |-> "timer", arg |-> "lookupBlur", opened |-> TRUE]
  /\ active.el = "row"
  /\ opened
  /\ selected = Null
  /\ calls = <<>>

PendingTimer(k) == \E i \in 1..Len(timers) : timers[i] = k

\* the step runs a pending focus timer of kind k: the timer is gone, and the
\* blur of the element that lost focus may have set a timer of its own
FocusTimerRuns(k) ==
  \E i \in 1..Len(timers) :
     /\ CanFire(i)
     /\ timers[i] = k
     /\ \/ timers' = RemoveAt(timers, i)
        \/ \E b \in {"searchBlur", "lookupBlur"} :
              timers' = Append(RemoveAt(timers, i), b)

C18_RovingFocus ==
  [][(ev'.name = "listKey" /\ ev'.arg \in {"ArrowUp", "ArrowDown"}) =>
       /\ active' = IF ev'.arg = "ArrowDown"
                      THEN (IF Row(active.idx + 1) \in Elements(rendered, props, Cur)
                              THEN Row(active.idx + 1) ELSE active)
                      ELSE (IF active.idx > 1 THEN Row(active.idx - 1) ELSE active)
       /\ selected' = selected
       /\ opened' = opened
       /\ searchText' = searchText
       /\ calls' = <<>>]_vars

\* Down was pressed on the last candidate row of a list that shows the
\* loading row: focus is still on it, no row was blurred
C18_Witness ==
  /\ ev = [name |-> "listKey", arg |-> "ArrowDown", opened |-> TRUE]
  /\ props.loading
  /\ Len(props.data) > 1
  /\ active = Row(Len(props.data))
  /\ timers = <<>>

\* the positions of data whose entry the caller's predicate accepts for the
\* current searchText and targetScope; every position when there is none
Accepted ==
  {j \in 1..Len(props.data) :
     \/ props.filter = "none"
     \/ lookupFilter(props.filter, props.data[j], searchText, targetScope)}

RenderedRows == {el \in Elements(rendered, props, Cur) : el.el = "row"}

\* C19: the candidate rows of an open list are the entries of data that the
\* filter accepts, in the order of data: all of them without a lookupFilter,
\* those for which lookupFilter(entry, searchText, targetScope) holds with
\* one, none when the predicate always returns false (the loading row is no
\* candidate row); only such an entry can be selected from the list, and a
\* render with new data leaves the LookupState as it was.
C19_FilteredRows ==
  /\ []("LookupCandidateList" \in rendered =>
          LET rows == Candidates(props, searchText, targetScope)
          IN /\ RenderedRows = {Row(i) : i \in 1..Cardinality(Accepted)}
             /\ Len(rows) = Cardinality(Accepted)
             /\ \A i \in 1..Len(rows) :
                   \E j \in Accepted :
                      /\ rows[i] = props.data[j]
                      /\ Cardinality({k \in Accepted : k < j}) = i - 1
             /\ props.filter = "none" => rows = props.data
             /\ props.filter = "never" => RenderedRows = {})
  /\ [](active.el = "row" => active \in RenderedRows)
  /\ [][(ev'.name = "select" /\ ev'.arg # Null) =>
          \E j \in Accepted : props.data[j] = ev'.arg]_vars
  /\ [][ev'.name = "data" =>
          /\ LookupState(Cur)' = LookupState(Cur)
          /\ calls' = <<>>]_vars

\* the list is open with nothing typed and the predicate accepts the first
\* of the two entries only: there is one candidate row, and it has focus
C19_Witness ==
  /\ props.filter = "match"
  /\ "LookupCandidateList" \in rendered
  /\ Len(props.data) = MaxData
  /\ searchText = <<>>
  /\ RenderedRows = {Row(1)}
  /\ active = Row(1)

\* C20: a keydown in the text field emits at most one of submit, pressDown
\* and complete: Enter submits non-empty text (one onLookupRequest, the list
\* opens) and completes on empty text (one onComplete without the cancel
\* flag), Down-arrow is pressDown (a request on a closed list, the one-shot
\* flag on an open one), Escape completes with cancel; any other key does
\* none of these, changes nothing and is passed to the onKeyDown prop.  (The
\* onKeyDown prop is called last for the three handled keys as well.)
C20_KeyDispatch ==
  [][ev'.name = "inputKey" =>
       LET kd  == Call("onKeyDown", <<>>, ev'.arg)
           req == Call("onLookupRequest", searchText, "-")
       IN CASE ev'.arg = "Enter" ->
                 IF searchText # <<>>
                   THEN /\ calls' = <<req, kd>>
                        /\ opened'
                        /\ focusFirstCandidate' = focusFirstCandidate
                   ELSE /\ calls' = <<Call("onComplete", <<>>, "undefined"), kd>>
                        /\ opened' = opened
                        /\ focusFirstCandidate' = focusFirstCandidate
            [] ev'.arg = "ArrowDown" ->
                 IF ~opened
                   THEN /\ calls' = <<req, kd>>
                        /\ opened'
                        /\ focusFirstCandidate' = focusFirstCandidate
                   ELSE /\ calls' = <<kd>>
                        /\ opened' = opened
                        /\ focusFirstCandidate'
            [] ev'.arg = "Escape" ->
                 /\ calls' = <<Call("onComplete", <<>>, "true"), kd>>
                 /\ opened' = opened
                 /\ focusFirstCandidate' = focusFirstCandidate
            [] OTHER ->
                 /\ calls' = <<kd>>
                 /\ LookupState(Cur)' = LookupState(Cur)
                 /\ timers' = timers
                 /\ active' = active]_vars

\* Tab was pressed in the text field with text typed: the onKeyDown prop got
\* the key and nothing else was called
C20_Witness ==
  /\ ev = [name |-> "inputKey", arg |-> "Tab", opened |-> FALSE]
  /\ searchText # <<>>
  /\ ~opened
  /\ calls = <<Call("onKeyDown", <<>>, "Tab")>>

\* C21: a click on the search icon of an enabled search bar moves focus to
\* the text field and submits: opened is true afterwards and onLookupRequest
\* is called once, with the current searchText, whether or not the text is
\* empty; selected and searchText are as they were.  On a disabled search bar
\* the click changes nothing, moves no focus and calls nothing.
C21_IconClick ==
  [][ev'.name = "iconClick" =>
       IF props.disabled
         THEN /\ LookupState(Cur)' = LookupState(Cur)
              /\ active' = active
              /\ timers' = timers
              /\ calls' = <<>>
         ELSE /\ active' = El("input")
              /\ opened'
              /\ calls' = <<Call("onLookupRequest", searchText, "-")>>
              /\ selected' = selected
              /\ searchText' = searchText]_vars

\* the icon of an empty search bar with a closed list was clicked: the list
\* is open, the empty text was requested, focus is in the text field
C21_Witness ==
  /\ ev = [name |-> "iconClick", arg |-> "-", opened |-> FALSE]
  /\ ~props.disabled
  /\ searchText = <<>>
  /\ opened
  /\ active = El("input")
  /\ calls = <<Call("onLookupRequest", <<>>, "-")>>

\* C22: with selected and opened uncontrolled, no step leads from a state
\* that is not (list open, selection shown) to one that is; so from an
\* initial state that is not, opened implies selected = null in every
\* reachable state.
C22_OpenImpliesNoSelection ==
  [][~(opened /\ selected # Null) => ~(opened' /\ selected' # Null)]_vars

\* a candidate was selected from the open list of a search: the selection is
\* shown and the list is closed
C22_Witness ==
  /\ ev.name = "select"
  /\ ev.opened
  /\ selected = ev.arg
  /\ selected # Null
  /\ ~opened
  /\ rendered = {"LookupSelection"}

\* C23: with opened uncontrolled, a step that opens the candidate list calls
\* onLookupRequest, a step that calls onLookupRequest leaves the list open,
\* and resetSelection is such a step.
C23_OpenWithRequest ==
  /\ [][(~opened /\ opened') => CallsOf(calls', "onLookupRequest") # <<>>]_vars
  /\ [][CallsOf(calls', "onLookupRequest") # <<>> =>
          /\ opened'
          /\ "LookupCandidateList" \in rendered'
          /\ Len(CallsOf(calls', "onLookupRequest")) = 1]_vars
  /\ [][ResetEvent(ev') =>
          /\ opened'
          /\ CallsOf(calls', "onLookupRequest") # <<>>]_vars

\* the selection of a Lookup with a closed list was reset: the list is open
\* and the empty text was requested
C23_Witness ==
  /\ ResetEvent(ev)
  /\ ~ev.opened
  /\ opened
  /\ selected = Null
  /\ CallsOf(calls, "onLookupRequest") = <<Call("onLookupRequest", <<>>, "-")>>

\* C24: a select of an entry calls onSelect(entry) and then onComplete()
\* without the cancel flag, once each; select(null), which Escape in the
\* candidate list emits, calls onComplete() without the flag once and nothing
\* else; onComplete(true) is called only by Escape in the text field and by
\* the 500ms blur check.
C24_SelectCompletes ==
  /\ [][(ev'.name = "select" /\ ev'.arg # Null) =>
          calls' = <<Call("onSelect", <<>>, ev'.arg),
                     Call("onComplete", <<>>, "undefined")>>]_vars
  /\ [][(ev'.name = "listKey" /\ ev'.arg = "Escape") =>
          calls' = <<Call("onComplete", <<>>, "undefined")>>]_vars
  /\ [](\A i \in 1..Len(calls) :
          calls[i] = Call("onComplete", <<>>, "true") =>
             \/ KeyEvent(ev, "Escape")
             \/ (ev.name = "timer" /\ ev.arg = "lookupBlur"))

\* Escape was pressed on a candidate row: onComplete() was called, without
\* the cancel flag, and nothing else
C24_Witness ==
  /\ ev = [name |-> "listKey", arg |-> "Escape", opened |-> TRUE]
  /\ calls = <<Call("onComplete", <<>>, "undefined")>>
  /\ ~opened

\* C25: Escape in the text field, and Enter in the empty text field, call
\* the caller's onComplete (with the cancel flag for Escape, without it for
\* Enter) and change none of opened, selected, searchText, targetScope and
\* focusFirstCandidate: an open candidate list is still open afterwards.
C25_CompleteChangesNothing ==
  [][(KeyEvent(ev', "Escape") \/ (KeyEvent(ev', "Enter") /\ searchText = <<>>)) =>
       /\ LookupState(Cur)' = LookupState(Cur)
       /\ rendered' = rendered
       /\ calls' = <<Call("onComplete", <<>>,
                          IF ev'.arg = "Escape" THEN "true" ELSE "undefined"),
                     Call("onKeyDown", <<>>, ev'.arg)>>]_vars

\* Escape was pressed in the text field over an open list, which is still open
C25_Witness ==
  /\ ev = [name |-> "inputKey", arg |-> "Escape", opened |-> TRUE]
  /\ opened
  /\ "LookupCandidateList" \in rendered
  /\ calls = <<Call("onComplete", <<>>, "true"), Call("onKeyDown", <<>>, "Escape")>>

====
